---- MODULE Spec2Model ----
(***************************************************************************)
(* Model of function_app.py: the two HTTP handlers process_document and    *)
(* get_answer, the two client factories, and the external services they    *)
(* call (embedding service, vector store, chat completion).                *)
(*                                                                         *)
(* Several requests are in flight at once (the hosting platform dispatches *)
(* them concurrently); a handler is atomic between two external calls, and *)
(* each external call is one step that may succeed or raise.               *)
(*                                                                         *)
(* Strings are run-length encoded: a string is a sequence of runs          *)
(* [ch, n].  Document bodies are separator-free texts "A"*L, so a chunk is *)
(* a run of "A".  Similarity scores are in hundredths (0.7 is 70).         *)
(***************************************************************************)
EXTENDS Integers, Sequences, FiniteSets, TLC

\* ------------------------------------------------------------------ bounds
MaxReqs == 2

Reqs == 1..MaxReqs

\* -------------------------------------------------------- program constants
ChunkSize == 1000
ChunkOverlap == 200
TopK == 3
Threshold == 70

index_name == "langchain"
DefaultSystemPrompt == "You are an AI assistant."
NoMatchAnswer == "I couldn't find any relevant information to answer your question."
MissingOpenAIKey == "OPENAI_API_KEY not found in environment variables"
MissingPineconeKey == "PINECONE_API_KEY not found in environment variables"

\* ------------------------------------------------------------------ inputs
\* Body lengths of the documents posted to process_document: empty, one
\* that splits in two chunks, one that splits in four.
BodyLens == {0, 1500, 2601}

\* Similarity scores the store can report (hundredths).
Scores == {60, 70, 90}

Absent == "<absent>"

\* ----------------------------------------------------------------- strings
Run(c, n) == IF n = 0 THEN <<>> ELSE <<[ch |-> c, n |-> n]>>

Concat(a, b) ==
    IF a = <<>> THEN b
    ELSE IF b = <<>> THEN a
    ELSE IF a[Len(a)].ch = b[1].ch
         THEN SubSeq(a, 1, Len(a) - 1)
              \o <<[ch |-> b[1].ch, n |-> a[Len(a)].n + b[1].n]>>
              \o Tail(b)
         ELSE a \o b

RECURSIVE StrLen(_)
StrLen(s) == IF s = <<>> THEN 0 ELSE s[1].n + StrLen(Tail(s))

SEP == Run("\n", 2)

\* "\n\n".join(texts)
RECURSIVE Join(_)
Join(texts) ==
    IF texts = <<>> THEN <<>>
    ELSE IF Len(texts) = 1 THEN texts[1]
    ELSE Concat(Concat(texts[1], SEP), Join(Tail(texts)))

\* ---------------------------------------------------------------- splitter
\* RecursiveCharacterTextSplitter(chunk_size, chunk_overlap) on a text with
\* no separator in it: windows of chunk_size characters, each starting
\* chunk_size - chunk_overlap after the previous one; the last window is
\* what remains.  The result is the list of chunk lengths.
RECURSIVE SplitFrom(_, _)
SplitFrom(start, total) ==
    IF total - start <= ChunkSize
    THEN <<total - start>>
    ELSE <<ChunkSize>> \o SplitFrom(start + ChunkSize - ChunkOverlap, total)

split_text(content) ==
    IF content = <<>> THEN <<>>
    ELSE LET lens == SplitFrom(0, StrLen(content))
         IN  [i \in 1..Len(lens) |-> Run(content[1].ch, lens[i])]

\* Mutant: the chunks are numbered from 1, as enumerate(texts, 1) would.
MakeDocsFromOne(texts) ==
    [i \in 1..Len(texts) |-> [page_content |-> texts[i], chunk_index |-> i]]

\* docs = [Document(page_content=t, metadata={"chunk_index": i}) for i, t in enumerate(texts)]
\* (upload_date, the wall-clock time of the request, is left out of the metadata.)
MakeDocs(texts) ==
    [i \in 1..Len(texts) |-> [page_content |-> texts[i], chunk_index |-> i - 1]]


\* --------------------------------------------------------- request bodies
\* process_document: raw bytes, either not valid UTF-8 or the text "A"*L.
PDBodies ==
    {[decodable |-> FALSE, text |-> <<>>]}
    \cup {[decodable |-> TRUE, text |-> Run("A", L)] : L \in BodyLens}

\* get_answer: not JSON at all, JSON that is no object (a list, null), or
\* an object whose "query" is absent, empty or "x".
GABodies ==
    {[json |-> j, query |-> Absent, system_prompt |-> Absent] : j \in {"invalid", "nonobject"}}
    \cup {[json |-> "object", query |-> q, system_prompt |-> p] :
            q \in {Absent, "", "x"}, p \in {Absent, "custom"}}

\* Every chunk text an ingestion of the model can store.
AllTexts ==
    UNION {{split_text(Run("A", L))[i] : i \in 1..Len(split_text(Run("A", L)))} : L \in BodyLens}

\* ------------------------------------------------------------------- state
VARIABLES
    env,        \* process environment: which credentials are set
    sim,        \* embedding model: similarity of each text to the query, in hundredths
    indexes,    \* vector store: names of the existing indexes
    vectors,    \* vector store: the vectors of index "langchain", in insertion order
    kind,       \* per request: "idle", "process_document" or "get_answer"
    body,       \* per request: the request body
    pc,         \* per request: the next external call of the handler, or "done"
    loc,        \* per request: the handler's local variables
    calls,      \* per request: the external calls made so far, in order
    logs,       \* per request: levels of the log entries written so far
    resp        \* per request: the HTTP response, NoResp until returned

vars == <<env, sim, indexes, vectors, kind, body, pc, loc, calls, logs, resp>>

NoResp == [status |-> 0]
NoBody == [json |-> "none"]
\* Locals of a handler: docs, the two clients (embeddings, pc: TRUE once
\* built), query, system_prompt, results (retrieved: TRUE once the search
\* returned), filtered_results, context, messages.
EmptyLoc ==
    [docs |-> <<>>, embeddings |-> FALSE, pc |-> FALSE,
     query |-> Absent, system_prompt |-> Absent, retrieved |-> FALSE, results |-> <<>>, filtered_results |-> <<>>, context |-> <<>>, messages |-> <<>>]

Init ==
    /\ env \in [{"OPENAI_API_KEY", "PINECONE_API_KEY"} -> BOOLEAN]
    /\ sim \in [AllTexts -> Scores]
    /\ indexes = {}
    /\ vectors = <<>>
    /\ kind = [r \in Reqs |-> "idle"]
    /\ body = [r \in Reqs |-> NoBody]
    /\ pc = [r \in Reqs |-> "idle"]
    /\ loc = [r \in Reqs |-> EmptyLoc]
    /\ calls = [r \in Reqs |-> <<>>]
    /\ logs = [r \in Reqs |-> <<>>]
    /\ resp = [r \in Reqs |-> NoResp]

\* --------------------------------------------------------- client factories
\* Mutant: the factory builds the client without looking for the credential.
initialize_embeddings_unchecked(e) == [ok |-> TRUE, error |-> ""]

\* Each returns [ok, error]: ok = FALSE is the ValueError it raises.
initialize_embeddings(e) ==
    IF ~e["OPENAI_API_KEY"]
    THEN [ok |-> FALSE, error |-> MissingOpenAIKey]
    ELSE [ok |-> TRUE, error |-> ""]

get_pinecone_client(e) ==
    IF ~e["PINECONE_API_KEY"]
    THEN [ok |-> FALSE, error |-> MissingPineconeKey]
    ELSE [ok |-> TRUE, error |-> ""]

\* --------------------------------------------------------------- responses
\* Mutant: status_code is left out, so the response has the default status.
PDEmptyResponseDefaultStatus ==
    [status |-> 200, mimetype |-> "text/plain", body |-> [text |-> "No content received"]]

PDEmptyResponse ==
    [status |-> 400, mimetype |-> "text/plain", body |-> [text |-> "No content received"]]

PDSuccessResponse(docs) ==
    [status |-> 200, mimetype |-> "application/json",
     body |-> [status |-> "success", chunks_processed |-> Len(docs)]]

PDErrorResponse(e, type) ==
    [status |-> 500, mimetype |-> "application/json",
     body |-> [error |-> e, type |-> type, trace |-> "<traceback object>"]]

GANoQueryResponse ==
    [status |-> 400, mimetype |-> "application/json", body |-> [error |-> "No query provided"]]

\* Mutant: documents_found counts the filtered results, none in this branch.
GANoMatchResponseFilteredCount(query, results) ==
    [status |-> 200, mimetype |-> "application/json",
     body |-> [answer |-> NoMatchAnswer,
               metadata |-> [query |-> query, documents_found |-> 0]]]

GANoMatchResponse(query, results) ==
    [status |-> 200, mimetype |-> "application/json",
     body |-> [answer |-> NoMatchAnswer,
               metadata |-> [query |-> query, documents_found |-> Len(results)]]]

GAAnswerResponse(answer, context, filtered_results) ==
    [status |-> 200, mimetype |-> "application/json",
     body |-> [answer |-> answer,
               context |-> context,
               similar_docs |-> [i \in 1..Len(filtered_results) |->
                                   [content |-> filtered_results[i].doc.page_content,
                                    score |-> filtered_results[i].score]]]]

GAErrorResponse(e) ==
    [status |-> 500, mimetype |-> "application/json", body |-> [error |-> e]]

\* Mutant: the except block returns the response without logging.
ExceptLogsSilent == <<>>

\* Log entries of the except block: logging.error(...)
ExceptLogs == <<"error">>

\* --------------------------------------------------------------- retrieval
\* Mutant: the comparison with the threshold is not strict.
PassesThresholdInclusive(score) == score >= Threshold

PassesThreshold(score) == score > Threshold

\* [(doc, score) for doc, score in results if score > 0.7]
RECURSIVE FilterResults(_)
FilterResults(results) ==
    IF results = <<>> THEN <<>>
    ELSE IF PassesThreshold(results[1].score)
         THEN <<results[1]>> \o FilterResults(Tail(results))
         ELSE FilterResults(Tail(results))

\* The store's answer to a query: the k vectors most similar to the query,
\* most similar first (equal scores in insertion order).
Best(S) ==
    CHOOSE i \in S : \A j \in S :
        \/ sim[vectors[i].page_content] > sim[vectors[j].page_content]
        \/ sim[vectors[i].page_content] = sim[vectors[j].page_content] /\ i <= j

RECURSIVE Nearest(_, _)
Nearest(S, k) ==
    IF k = 0 \/ S = {} THEN <<>>
    ELSE LET i == Best(S)
         IN  <<[doc |-> vectors[i], score |-> sim[vectors[i].page_content]]>>
             \o Nearest(S \ {i}, k - 1)

similarity_search_with_score(k) == Nearest(DOMAIN vectors, k)

BuildContext(filtered_results) ==
    Join([i \in 1..Len(filtered_results) |-> filtered_results[i].doc.page_content])

BuildMessages(system_prompt, context, query) ==
    <<[role |-> "system", content |-> system_prompt],
      [role |-> "user", content |-> [context |-> context, question |-> query]]>>

\* ------------------------------------------------------------ vector store
\* Mutant: the chunks are stored under their chunk_index, so they replace the
\* vectors of an earlier document that have the same index.
UpsertedByChunkIndex(vs, docs) == docs \o SubSeq(vs, Len(docs) + 1, Len(vs))

\* add_documents stores every chunk under a fresh id: the stored vectors are
\* the old ones followed by the new ones.
Upserted(vs, docs) == vs \o docs

\* ----------------------------------------------------------------- helpers
\* r is the next request to arrive: requests are numbered in arrival order.
Arrives(r) == kind[r] = "idle" /\ \A q \in Reqs : q < r => kind[q] # "idle"

\* The handler returns response: nothing more happens in this request.
Return(r, response, newlogs) ==
    /\ resp' = [resp EXCEPT ![r] = response]
    /\ logs' = [logs EXCEPT ![r] = logs[r] \o newlogs]
    /\ pc' = [pc EXCEPT ![r] = "done"]

\* The external call `name` of request r is made.
Call(r, name) == calls' = [calls EXCEPT ![r] = Append(calls[r], name)]

\* Where process_document goes after list_indexes returned `existing`.
PDAfterListIndexes(existing) ==
    IF index_name \notin existing THEN "create_index" ELSE "embed"

\* Mutant: the index is queried before the query is embedded.
GAAfterClientsSearchFirst == "search"

\* Where get_answer goes after its clients are built.
GAAfterClients == "embed"

\* ------------------------------------------------- process_document, 32-119
\* Lines 33-72: from the request's arrival to just before list_indexes.
process_document_begin(r, b) ==
    /\ Arrives(r)
    /\ kind' = [kind EXCEPT ![r] = "process_document"]
    /\ body' = [body EXCEPT ![r] = b]
    /\ UNCHANGED <<env, sim, indexes, vectors, calls>>
    /\ IF ~b.decodable
       THEN \* req.get_body().decode('utf-8') raises
            /\ Return(r, PDErrorResponse("invalid utf-8", "UnicodeDecodeError"),
                      <<"info">> \o ExceptLogs)
            /\ UNCHANGED loc
       ELSE IF b.text = <<>>
       THEN /\ Return(r, PDEmptyResponse, <<"info", "info">>)
            /\ UNCHANGED loc
       ELSE LET docs == MakeDocs(split_text(b.text))
                embeddings == initialize_embeddings(env)
                pcl == get_pinecone_client(env)
            IN  /\ loc' = [loc EXCEPT ![r].docs = docs,
                                       ![r].embeddings = embeddings.ok,
                                       ![r].pc = embeddings.ok /\ pcl.ok]
                /\ IF ~embeddings.ok
                   THEN Return(r, PDErrorResponse(embeddings.error, "ValueError"),
                               <<"info", "info">> \o ExceptLogs)
                   ELSE IF ~pcl.ok
                   THEN Return(r, PDErrorResponse(pcl.error, "ValueError"),
                               <<"info", "info">> \o ExceptLogs)
                   ELSE /\ pc' = [pc EXCEPT ![r] = "list_indexes"]
                        /\ logs' = [logs EXCEPT ![r] = <<"info", "info">>]
                        /\ UNCHANGED resp

\* Lines 75-76: pc.list_indexes() and the membership test.
process_document_list_indexes(r) ==
    /\ kind[r] = "process_document" /\ pc[r] = "list_indexes"
    /\ Call(r, "list_indexes")
    /\ UNCHANGED <<env, sim, indexes, vectors, kind, body, loc>>
    /\ \/ /\ pc' = [pc EXCEPT ![r] = PDAfterListIndexes(indexes)]
          /\ UNCHANGED <<logs, resp>>
       \/ Return(r, PDErrorResponse("service error", "Exception"), ExceptLogs)

\* Lines 77-86: pc.create_index(name=index_name, ...).  The store refuses to
\* create an index that exists.
process_document_create_index(r) ==
    /\ kind[r] = "process_document" /\ pc[r] = "create_index"
    /\ Call(r, "create_index")
    /\ UNCHANGED <<env, sim, vectors, kind, body, loc>>
    /\ IF index_name \in indexes
       THEN /\ Return(r, PDErrorResponse("index already exists", "PineconeApiException"),
                      ExceptLogs)
            /\ UNCHANGED indexes
       ELSE \/ /\ indexes' = indexes \cup {index_name}
               /\ pc' = [pc EXCEPT ![r] = "embed"]
               /\ UNCHANGED <<logs, resp>>
            \/ /\ Return(r, PDErrorResponse("service error", "Exception"), ExceptLogs)
               /\ UNCHANGED indexes

\* Line 98, first half: add_documents embeds the chunks.
process_document_embed(r) ==
    /\ kind[r] = "process_document" /\ pc[r] = "embed"
    /\ Call(r, "embed")
    /\ UNCHANGED <<env, sim, indexes, vectors, kind, body, loc>>
    /\ \/ /\ pc' = [pc EXCEPT ![r] = "upsert"]
          /\ UNCHANGED <<logs, resp>>
       \/ Return(r, PDErrorResponse("service error", "Exception"), ExceptLogs)

\* Lines 98-106: add_documents upserts the chunks in one batch, each under a
\* fresh id, and the handler returns the success response.
process_document_upsert(r) ==
    /\ kind[r] = "process_document" /\ pc[r] = "upsert"
    /\ Call(r, "upsert")
    /\ UNCHANGED <<env, sim, indexes, kind, body, loc>>
    /\ IF index_name \notin indexes
       THEN /\ Return(r, PDErrorResponse("index not found", "NotFoundException"), ExceptLogs)
            /\ UNCHANGED vectors
       ELSE \/ /\ vectors' = Upserted(vectors, loc[r].docs)
               /\ Return(r, PDSuccessResponse(loc[r].docs), <<>>)
            \/ /\ Return(r, PDErrorResponse("service error", "Exception"), ExceptLogs)
               /\ UNCHANGED vectors

\* ------------------------------------------------------ get_answer, 122-203
\* Lines 123-146: from the request's arrival to just before the search.
get_answer_begin(r, b) ==
    /\ Arrives(r)
    /\ kind' = [kind EXCEPT ![r] = "get_answer"]
    /\ body' = [body EXCEPT ![r] = b]
    /\ UNCHANGED <<env, sim, indexes, vectors, calls>>
    /\ IF b.json = "invalid"
       THEN \* req.get_json() raises
            /\ Return(r, GAErrorResponse("HTTP request does not contain valid JSON data"),
                      <<"info">> \o ExceptLogs)
            /\ UNCHANGED loc
       ELSE IF b.json = "nonobject"
       THEN \* req_body.get raises AttributeError
            /\ Return(r, GAErrorResponse("object has no attribute 'get'"),
                      <<"info">> \o ExceptLogs)
            /\ UNCHANGED loc
       ELSE LET query == b.query
                system_prompt == IF b.system_prompt = Absent
                                 THEN DefaultSystemPrompt ELSE b.system_prompt
                embeddings == initialize_embeddings(env)
                pcl == get_pinecone_client(env)
                valid == query \notin {Absent, ""}
            IN  /\ loc' = [loc EXCEPT ![r].query = query,
                                       ![r].system_prompt = system_prompt,
                                       ![r].embeddings = valid /\ embeddings.ok,
                                       ![r].pc = valid /\ embeddings.ok /\ pcl.ok]
                /\ IF ~valid
                   THEN Return(r, GANoQueryResponse, <<"info">>)
                   ELSE IF ~embeddings.ok
                   THEN Return(r, GAErrorResponse(embeddings.error), <<"info">> \o ExceptLogs)
                   ELSE IF ~pcl.ok
                   THEN Return(r, GAErrorResponse(pcl.error), <<"info">> \o ExceptLogs)
                   ELSE /\ pc' = [pc EXCEPT ![r] = GAAfterClients]
                        /\ logs' = [logs EXCEPT ![r] = <<"info">>]
                        /\ UNCHANGED resp

\* Line 148, first half: similarity_search_with_score embeds the query.
get_answer_embed(r) ==
    /\ kind[r] = "get_answer" /\ pc[r] = "embed"
    /\ Call(r, "embed")
    /\ UNCHANGED <<env, sim, indexes, vectors, kind, body, loc>>
    /\ \/ /\ pc' = [pc EXCEPT ![r] = "search"]
          /\ UNCHANGED <<logs, resp>>
       \/ Return(r, GAErrorResponse("service error"), ExceptLogs)

\* Lines 148-170: the index is queried for the k nearest vectors, the
\* results are filtered and the context built, or the no-match answer returned.
get_answer_search(r) ==
    /\ kind[r] = "get_answer" /\ pc[r] = "search"
    /\ Call(r, "search")
    /\ UNCHANGED <<env, sim, indexes, vectors, kind, body>>
    /\ IF index_name \notin indexes
       THEN /\ Return(r, GAErrorResponse("index not found"), ExceptLogs)
            /\ UNCHANGED loc
       ELSE \/ LET results == similarity_search_with_score(TopK)
                   filtered_results == FilterResults(results)
                   context == BuildContext(filtered_results)
               IN  IF filtered_results = <<>>
                   THEN /\ loc' = [loc EXCEPT ![r].retrieved = TRUE,
                                              ![r].results = results]
                        /\ Return(r, GANoMatchResponse(loc[r].query, results), <<>>)
                   ELSE /\ loc' = [loc EXCEPT ![r].retrieved = TRUE,
                                              ![r].results = results,
                                              ![r].filtered_results = filtered_results,
                                              ![r].context = context,
                                              ![r].messages =
                                                  BuildMessages(loc[r].system_prompt,
                                                                context, loc[r].query)]
                        /\ pc' = [pc EXCEPT ![r] = "chat"]
                        /\ UNCHANGED <<logs, resp>>
            \/ /\ Return(r, GAErrorResponse("service error"), ExceptLogs)
               /\ UNCHANGED loc

\* Lines 173-195: the chat completion and the answer response.
get_answer_chat(r) ==
    /\ kind[r] = "get_answer" /\ pc[r] = "chat"
    /\ Call(r, "chat")
    /\ UNCHANGED <<env, sim, indexes, vectors, kind, body, loc>>
    /\ \/ Return(r, GAAnswerResponse("<answer>", loc[r].context, loc[r].filtered_results), <<>>)
       \/ Return(r, GAErrorResponse("service error"), ExceptLogs)

\* ---------------------------------------------------------- specification
Next ==
    \E r \in Reqs :
        \/ \E b \in PDBodies : process_document_begin(r, b)
        \/ process_document_list_indexes(r)
        \/ process_document_create_index(r)
        \/ process_document_embed(r)
        \/ process_document_upsert(r)
        \/ \E b \in GABodies : get_answer_begin(r, b)
        \/ get_answer_embed(r)
        \/ get_answer_search(r)
        \/ get_answer_chat(r)

Spec == Init /\ [][Next]_vars

\* ------------------------------------------------------------- properties
IsPD(r) == kind[r] = "process_document"
IsGA(r) == kind[r] = "get_answer"
Done(r) == pc[r] = "done"

\* The body of a get_answer request carries no query, or an empty one.
NoQuery(b) == b.json # "object" \/ b.query \in {Absent, ""}

\* The input of request r passes the handler's validation.
ValidInput(r) ==
    \/ IsPD(r) /\ body[r].decodable /\ body[r].text # <<>>
    \/ IsGA(r) /\ body[r].json = "object" /\ body[r].query \notin {Absent, ""}

IsPrefix(s, t) == Len(s) <= Len(t) /\ SubSeq(t, 1, Len(s)) = s

Count(s, x) == Cardinality({i \in 1..Len(s) : s[i] = x})

\* The results of request r that score more than 0.7, in retrieval order.
Kept(r) == SelectSeq(loc[r].results, LAMBDA x : x.score > 70)

\* Number of chunks of a separator-free text of L characters, 1000/200.
ExpectedChunks(L) == IF L <= 1000 THEN 1 ELSE 1 + ((L - 1000 + 799) \div 800)

\* C1: every get_answer request whose body carries no query (whatever the
\* body is) is answered 400 with a JSON body {error}, and no embedding,
\* vector-store or chat call is made.
C1_NoQueryIs400 ==
    \A r \in Reqs :
        (IsGA(r) /\ NoQuery(body[r])) =>
            /\ Done(r)
            /\ resp[r].status = 400
            /\ DOMAIN resp[r].body = {"error"}
            /\ calls[r] = <<>>

\* C2: a process_document request with an empty body is answered 400 and
\* makes no external call and builds no client at any point.
C2_EmptyBodyIs400 ==
    \A r \in Reqs :
        (IsPD(r) /\ body[r].decodable /\ body[r].text = <<>>) =>
            /\ Done(r)
            /\ resp[r].status = 400
            /\ calls[r] = <<>>
            /\ ~loc[r].embeddings /\ ~loc[r].pc

C2_Witness ==
    \E r \in Reqs :
        IsPD(r) /\ body[r].decodable /\ body[r].text = <<>> /\ Done(r) /\ resp[r].status = 400

\* C3: a get_answer request that reached retrieval got at most 3 results; a
\* result is in similar_docs and in context iff its score is more than 0.7;
\* the survivors are in retrieval order, and context is their texts joined
\* by a double newline.
C3_ThresholdFilter ==
    \A r \in Reqs :
        (IsGA(r) /\ loc[r].retrieved) =>
            /\ Len(loc[r].results) <= 3
            /\ (Done(r) /\ resp[r].status = 200) =>
                 IF "similar_docs" \in DOMAIN resp[r].body
                 THEN LET kept == Kept(r)
                          sd == resp[r].body.similar_docs
                          ctx == resp[r].body.context
                      IN  /\ Len(sd) = Len(kept)
                          /\ \A i \in 1..Len(sd) :
                                /\ sd[i].content = kept[i].doc.page_content
                                /\ sd[i].score = kept[i].score
                          /\ Len(ctx) = 2 * Len(kept) - 1
                          /\ \A i \in 1..Len(ctx) :
                                ctx[i] = IF i % 2 = 1
                                         THEN kept[(i + 1) \div 2].doc.page_content[1]
                                         ELSE [ch |-> "\n", n |-> 2]
                 ELSE Kept(r) = <<>>

C3_Witness ==
    \E r \in Reqs :
        /\ IsGA(r) /\ Done(r) /\ resp[r].status = 200
        /\ "similar_docs" \in DOMAIN resp[r].body
        /\ Len(vectors) > 3
        /\ Len(loc[r].results) = 3
        /\ Len(resp[r].body.similar_docs) \in {1, 2}
        /\ \E i \in 1..3 : loc[r].results[i].score = 70

\* C4: a get_answer request whose retrieval returned no result above 0.7 is
\* answered 200 with the canned answer, documents_found the number of results
\* retrieved, query the submitted query, and never calls the chat service;
\* the chat service is called exactly once when a result survives.
C4_NoMatch ==
    \A r \in Reqs :
        /\ (IsGA(r) /\ loc[r].retrieved /\ Kept(r) = <<>>) =>
              /\ Done(r)
              /\ resp[r].status = 200
              /\ resp[r].body.answer = NoMatchAnswer
              /\ resp[r].body.metadata.documents_found = Len(loc[r].results)
              /\ resp[r].body.metadata.query = body[r].query
              /\ Count(calls[r], "chat") = 0
        /\ (IsGA(r) /\ loc[r].retrieved /\ Kept(r) # <<>>) =>
              IF Done(r) THEN Count(calls[r], "chat") = 1
              ELSE pc[r] = "chat" /\ Count(calls[r], "chat") = 0
        /\ Count(calls[r], "chat") > 0 => (IsGA(r) /\ loc[r].retrieved /\ Kept(r) # <<>>)

C4_Witness ==
    \E r \in Reqs :
        /\ IsGA(r) /\ Done(r) /\ loc[r].retrieved
        /\ Len(loc[r].results) = 3 /\ Kept(r) = <<>>
        /\ resp[r].body.metadata.documents_found = 3

\* C5 as stated: within a request the calls are the embedding call, then the
\* vector-store calls, then the chat call; no vector-store call precedes the
\* request's embedding call.
C5_EmbedBeforeStore ==
    \A r \in Reqs : \A i \in 1..Len(calls[r]) :
        calls[r][i] \in {"list_indexes", "create_index", "upsert", "search"} =>
            \E j \in 1..(i - 1) : calls[r][j] = "embed"

\* C5 amended: the calls of a query are embed, search, chat in that order;
\* the calls of an ingestion are list_indexes, then create_index if the index
\* was absent, then embed, then upsert: the index is looked up (and created)
\* before the embedding call, the vectors are written or searched after it.
C5_CallOrder ==
    \A r \in Reqs :
        /\ IsGA(r) => IsPrefix(calls[r], <<"embed", "search", "chat">>)
        /\ IsPD(r) =>
              \/ IsPrefix(calls[r], <<"list_indexes", "embed", "upsert">>)
              \/ IsPrefix(calls[r], <<"list_indexes", "create_index", "embed", "upsert">>)
        /\ kind[r] = "idle" => calls[r] = <<>>

C5_Witness ==
    \E r, q \in Reqs :
        /\ IsPD(r) /\ calls[r] = <<"list_indexes", "create_index", "embed", "upsert">>
        /\ IsGA(q) /\ calls[q] = <<"embed", "search", "chat">>

\* C6 as stated: every error response, 400 or 500, of either handler has an
\* error log entry written before it.
C6_EveryErrorLogged ==
    \A r \in Reqs :
        resp[r].status \in {400, 500} => \E i \in 1..Len(logs[r]) : logs[r][i] = "error"

\* C6 amended: every 500 response has an error log entry written before it,
\* as the last entry of the request; a 400 response has only the handler's
\* info entries and no error entry.
C6_ExceptionsLogged ==
    \A r \in Reqs :
        /\ resp[r].status = 500 =>
              /\ logs[r] # <<>>
              /\ logs[r][Len(logs[r])] = "error"
        /\ resp[r].status = 400 =>
              /\ logs[r] # <<>>
              /\ \A i \in 1..Len(logs[r]) : logs[r][i] = "info"

C6_Witness ==
    \E r, q \in Reqs :
        /\ resp[r].status = 500 /\ calls[r] # <<>>
        /\ resp[q].status = 400

\* C7: a request with valid input made while a credential is absent is
\* answered 500 with the message naming the missing credential, and makes
\* no external call.
C7_MissingCredential ==
    \A r \in Reqs :
        (ValidInput(r) /\ (~env["OPENAI_API_KEY"] \/ ~env["PINECONE_API_KEY"])) =>
            /\ Done(r)
            /\ resp[r].status = 500
            /\ resp[r].body.error =
                   IF ~env["OPENAI_API_KEY"] THEN MissingOpenAIKey ELSE MissingPineconeKey
            /\ calls[r] = <<>>

C7_Witness ==
    \E r, q \in Reqs :
        /\ IsPD(r) /\ ValidInput(r) /\ IsGA(q) /\ ValidInput(q)
        /\ env["OPENAI_API_KEY"] /\ ~env["PINECONE_API_KEY"]
        /\ resp[r].status = 500 /\ resp[q].status = 500

\* C8: a process_document request answered with success reports as
\* chunks_processed the number n of chunks of its body, its last call is the
\* one upsert, which stored the n chunks with chunk_index 0..n-1 in split
\* order (a 1500-character body gives n = 2); a request whose upsert failed
\* is answered 500.
C8_ChunksProcessed ==
    \A r \in Reqs :
        /\ (IsPD(r) /\ resp[r].status = 200) =>
              LET n == ExpectedChunks(StrLen(body[r].text))
                  docs == loc[r].docs
              IN  /\ resp[r].body.chunks_processed = n
                  /\ Len(docs) = n
                  /\ \A i \in 1..n : docs[i].chunk_index = i - 1
                  /\ Count(calls[r], "upsert") = 1
                  /\ calls[r][Len(calls[r])] = "upsert"
                  /\ \E k \in 0..(Len(vectors) - n) : SubSeq(vectors, k + 1, k + n) = docs
                  /\ StrLen(body[r].text) = 1500 => n = 2
        /\ (IsPD(r) /\ Done(r) /\ Count(calls[r], "upsert") = 1) =>
              /\ resp[r].status \in {200, 500}
              /\ resp[r].status = 200 => resp[r].body.chunks_processed = Len(loc[r].docs)

C8_Witness ==
    \E r \in Reqs :
        /\ IsPD(r) /\ resp[r].status = 200
        /\ StrLen(body[r].text) = 1500
        /\ resp[r].body.chunks_processed = 2
        /\ vectors = loc[r].docs

\* C9: with the external services healthy, no process_document request is
\* answered 500 because the index was created by another request between its
\* list_indexes and its create_index: create_index is called only while the
\* index is absent.
C9_NoCreateConflict ==
    (\A q \in Reqs : resp[q].status = 500 => resp[q].body.error # "service error") =>
        \A r \in Reqs :
            (IsPD(r) /\ resp[r].status = 500) => resp[r].body.error # "index already exists"

\* C10: the vector store is changed only by process_document: a step of a
\* get_answer request leaves the indexes and the vectors unchanged, and every
\* step keeps every index and every stored vector (the vectors only grow).
StepOf(r) == pc'[r] # pc[r] \/ kind'[r] # kind[r] \/ calls'[r] # calls[r]

C10_StoreOnlyGrows ==
    [][/\ indexes \subseteq indexes'
       /\ IsPrefix(vectors, vectors')
       /\ \A r \in Reqs :
             (StepOf(r) /\ kind'[r] = "get_answer") =>
                 (indexes' = indexes /\ vectors' = vectors)]_vars

C10_Witness ==
    \E r, q \in Reqs :
        /\ IsPD(r) /\ resp[r].status = 200
        /\ IsGA(q) /\ resp[q].status = 200 /\ loc[q].retrieved
        /\ loc[q].results # <<>>
        /\ vectors = loc[r].docs /\ indexes = {index_name}

====
